---- MODULE Spec2Model ----
(***************************************************************************)
(* Model of crawler.py: get_all_writetups() fetches the write-up index,   *)
(* maps extract_info over the rows on a ThreadPool(PARALLEL_REQ), and     *)
(* extract_info retries get_writeup_url up to MAX_RETRIES times.          *)
(***************************************************************************)
EXTENDS Integers, Sequences, FiniteSets, TLC

\* ---------------------------------------------------------------- constants
PARALLEL_REQ == 7
MAX_RETRIES == 15
BASE_URL == "https://ctftime.org"

\* multiprocessing.pool.Pool._map_async: chunksize = ceil(len / (workers * 4))
CHUNK_FACTOR == 4

\* ------------------------------------------------------------------- bounds
MaxRows == 2        \* rows on the index page in Spec
MaxExtra == 1       \* rows beyond the pool width in SpecPool
MaxAnchors == 2     \* anchors matched by one xpath query in SpecResolve

\* ------------------------------------------------------------ Python values
\* An optional string: <<>> is None, <<s>> is the str s.
None == <<>>
Some(s) == <<s>>

Statuses == {200, 204, 301, 404, 503}

\* An <a> element; .get("href") is None when the attribute is absent.
Anchor(href) == [href |-> href]

INLINE_A == "https://github.com/a/a"
INLINE_C == "https://github.com/c/c"
FALLBACK_B == "https://blog.example/b"

DescriptionHrefs == {None, Some(""), Some(INLINE_A), Some(INLINE_C)}
OriginalHrefs == {None, Some(""), Some(FALLBACK_B)}

SeqsUpTo(S, n) == UNION {[1..k -> S] : k \in 0..n}

\* A parsed detail page, seen through the two xpath queries of get_writeup_url:
\* description = //div[@id='id_description']/p/a, original = //a[text()='Original writeup'].
DetailPage(description, original) == [description |-> description, original |-> original]

AllPages ==
    {DetailPage(d, o) : d \in SeqsUpTo({Anchor(h) : h \in DescriptionHrefs}, MaxAnchors),
                        o \in SeqsUpTo({Anchor(h) : h \in OriginalHrefs}, MaxAnchors)}

\* The detail pages and the status codes the remote site answers with in the
\* crawl specifications.
PlainPage == DetailPage(<<>>, <<>>)
BothLinksPage == DetailPage(<<Anchor(Some(INLINE_A))>>, <<Anchor(Some(FALLBACK_B))>>)
NoHrefPage == DetailPage(<<Anchor(None)>>, <<Anchor(Some(FALLBACK_B))>>)
SitePages == {PlainPage, BothLinksPage, NoHrefPage}
SiteStatuses == {200, 204, 503}

\* What requests.get gives back: a response, or a raised RequestException.
Response(status, content) == [kind |-> "response", status_code |-> status, content |-> content]
NetworkError == [kind |-> "error", status_code |-> 0, content |-> PlainPage]

\* Exceptions, all of one shape.
CouldNotFetchInformation(origin, ctf, challenge) ==
    [type |-> "CouldNotFetchInformation", origin |-> origin, ctf |-> ctf, challenge |-> challenge]
RequestException(origin, ctf, challenge) ==
    [type |-> "RequestException", origin |-> origin, ctf |-> ctf, challenge |-> challenge]

IndexError(origin, ctf, challenge) ==
    [type |-> "IndexError", origin |-> origin, ctf |-> ctf, challenge |-> challenge]
TypeError(origin, ctf, challenge) ==
    [type |-> "TypeError", origin |-> origin, ctf |-> ctf, challenge |-> challenge]

Return(v) == [kind |-> "return", value |-> v]
Raise(e) == [kind |-> "raise", value |-> e]
Pending == [kind |-> "pending", value |-> None]

\* ---------------------------------------------------------------- index page
\* A <tr> of the write-ups table, seen through the xpath queries of extract_info.
Row(k) == [td1 |-> <<"CTF" \o ToString(k)>>,
           td2 |-> <<"pwn" \o ToString(k)>>,
           td5 |-> <<Anchor(Some("/writeup/" \o ToString(k)))>>]

IndexPage(R) == [k \in 1..R |-> Row(k)]

\* Row k as the site may render it: complete, or without the text of column 1
\* or 2, without the anchor of column 5, or with an anchor there that has no href.
RowShapes(k) ==
    { Row(k),
      [Row(k) EXCEPT !.td1 = <<>>],
      [Row(k) EXCEPT !.td2 = <<>>],
      [Row(k) EXCEPT !.td5 = <<>>],
      [Row(k) EXCEPT !.td5 = <<Anchor(None)>>] }

\* Every index page of n rows.
IndexPages(n) ==
    {page \in [1..n -> UNION {RowShapes(k) : k \in 1..n}] : \A k \in 1..n : page[k] \in RowShapes(k)}

\* Variant: the two labels change places.
RowInformation_Swapped(ctf, challenge, link) == [ctf |-> challenge, challenge |-> ctf, link |-> link]

RowInformation(ctf, challenge, link) == [ctf |-> ctf, challenge |-> challenge, link |-> link]

\* ------------------------------------------------------------ pure functions
\* Variant: only the error statuses raise.
assert_status_200_Below400(status) == status < 400

\* assert_status_200: TRUE when it returns, FALSE when it raises.
assert_status_200(status) == status = 200

\* Variant: the 'Original writeup' link is looked at first.
get_writeup_url_OriginalFirst(url, response) ==
    IF response.kind = "error"
    THEN Raise(RequestException("get_writeup_url", "", ""))
    ELSE IF ~assert_status_200(response.status_code)
    THEN Raise(CouldNotFetchInformation("assert_status_200", "", ""))
    ELSE LET description == response.content.description
             original_writeup == response.content.original
         IN IF original_writeup # <<>> THEN Return(original_writeup[1].href)
            ELSE IF description # <<>> THEN Return(description[1].href)
            ELSE Return(Some(url))

\* get_writeup_url(url) given what requests.get(url) produced.
get_writeup_url(url, response) ==
    IF response.kind = "error"
    THEN Raise(RequestException("get_writeup_url", "", ""))
    ELSE IF ~assert_status_200(response.status_code)
    THEN Raise(CouldNotFetchInformation("assert_status_200", "", ""))
    ELSE LET description == response.content.description
             original_writeup == response.content.original
         IN IF description # <<>> THEN Return(description[1].href)
            ELSE IF original_writeup # <<>> THEN Return(original_writeup[1].href)
            ELSE Return(Some(url))

\* Python floats are IEEE doubles: 53 significant bits.
DBL_MANT_DIG == 53

\* random.random() gives a multiple of 2^-53 in [0, 1). The draws modelled are
\* u = 1 - 2^-m for m in 1..53, and u = 0 written m = 0.
Draws == 0..DBL_MANT_DIG

RECURSIVE Log2Floor(_)
Log2Floor(n) == IF n <= 1 THEN 0 ELSE 1 + Log2Floor(n \div 2)

\* A float x as [whole, below]: x = whole - 2^-below, or x = whole when below = 0.
Float(whole, below) == [whole |-> whole, below |-> below]

\* Variant: the attempt index is left out of the exponent.
BackoffExponent_NoAttempt(i, m) ==
    IF m = 0 THEN Float(0, 0) ELSE Float(1, m)

\* i + random.random() of line 71, rounded to nearest as the double addition
\* does: i + 1 - 2^-m lies in the binade of 2^Log2Floor(i), whose spacing is
\* 2^(Log2Floor(i) - 52), so it is exact only while m <= 52 - Log2Floor(i) and
\* becomes i + 1 beyond that.
BackoffExponent(i, m) ==
    IF m = 0 THEN Float(i, 0)
    ELSE IF i > 0 /\ m >= DBL_MANT_DIG - Log2Floor(i) THEN Float(i + 1, 0)
    ELSE Float(i + 1, m)

\* x <= y for two such floats; 2 ** x, increasing in x, orders the delays alike.
FloatFloor(x) == IF x.below = 0 THEN x.whole ELSE x.whole - 1
FloatLeq(x, y) ==
    \/ FloatFloor(x) < FloatFloor(y)
    \/ FloatFloor(x) = FloatFloor(y) /\ x.below <= y.below

\* Variant: range(MAX_RETRIES - 1).
LoopContinues_OneLess(i) == i + 2 < MAX_RETRIES

\* Variant: range(MAX_RETRIES + 1).
LoopContinues_OneMore(i) == i + 1 <= MAX_RETRIES

\* for i in range(MAX_RETRIES): is there an iteration after the one with index i?
LoopContinues(i) == i + 1 < MAX_RETRIES

\* Pool._map_async: the chunk size chosen for an iterable of length n.
ChunkSize(n) ==
    IF n = 0 THEN 0
    ELSE (n \div (PARALLEL_REQ * CHUNK_FACTOR))
         + (IF n % (PARALLEL_REQ * CHUNK_FACTOR) # 0 THEN 1 ELSE 0)

\* MapResult.__init__: the number of chunks.
NumberOfChunks(n) ==
    IF ChunkSize(n) <= 0 THEN 0
    ELSE (n \div ChunkSize(n)) + (IF n % ChunkSize(n) # 0 THEN 1 ELSE 0)

Min(a, b) == IF a < b THEN a ELSE b

\* Pool._get_tasks: chunk c (from 1) holds these row indices, in order.
ChunkItems(n, c) ==
    [j \in 1..(Min(c * ChunkSize(n), n) - (c - 1) * ChunkSize(n)) |-> (c - 1) * ChunkSize(n) + j]

\* The task queue right after submission.
TaskQueue(n) == [c \in 1..NumberOfChunks(n) |-> c]

\* Variant: the task stays in the queue.
QueueAfterGet_Peek(q) == q

\* SimpleQueue.get(): what is left in the queue after one get.
QueueAfterGet(q) == Tail(q)

\* Variant: one worker too many.
WorkerAvailable_OneMore(busy) == busy <= PARALLEL_REQ

\* The pool has PARALLEL_REQ worker threads; one is free when fewer are busy.
WorkerAvailable(busy) == busy < PARALLEL_REQ


\* extract_info, lines 61-63: the labels and the link of a row.
Ctf(row) == row.td1[1]
Challenge(row) == row.td2[1]
Link(row) == row.td5[1].href

\* BASE_URL + link
DetailURL(row) == BASE_URL \o Link(row)[1]

\* extract_info, lines 61-67, up to the first requests.get: [0] on an empty
\* xpath result raises IndexError, BASE_URL + None raises TypeError; otherwise
\* nothing is raised and the fetch starts.
Entry(row) ==
    IF row.td1 = <<>> \/ row.td2 = <<>> \/ row.td5 = <<>>
    THEN Raise(IndexError("extract_info", "", ""))
    ELSE IF Link(row) = None
    THEN Raise(TypeError("extract_info", "", ""))
    ELSE Pending

\* -------------------------------------------------------------------- state
VARIABLES
    indexPage,      \* remote: the rows of the write-ups table
    served,         \* remote: the detail pages it may answer with
    ordered,        \* remote: TRUE when it answers the outstanding requests lowest row first
    faults,         \* remote: per row, how many more fetches of its page may fail
    pc,             \* get_all_writetups: "start", "map", "returned", "raised"
    indexStatus,    \* response.status_code of the index fetch (0: none yet)
    indexFetches,   \* number of requests.get calls for the index
    rows,           \* tree.xpath(...): the rows found
    queue,          \* pool: chunks not yet taken by a worker
    active,         \* pool: chunks a worker is running
    st,             \* per row: "queued", "fetching", "sleeping", "done", "raised", "skipped"
    attempt,        \* per row: the loop variable i of extract_info
    fetches,        \* per row: number of requests.get calls for its page
    invocations,    \* per row: number of extract_info calls
    sleeps,         \* per row: number of time.sleep calls
    rec,            \* per row: what extract_info returned or raised
    outqueue,       \* Pool._outqueue: chunk results the workers have put, not stored yet
    mapSuccess,     \* MapResult._success
    mapValue,       \* MapResult._value: ValueList(l) or ValueException(e)
    numberLeft,     \* MapResult._number_left
    outcome,        \* what get_all_writetups returned or raised
    info,           \* __main__: the module variable info
    logged,         \* __main__: logging.exception was called
    printed,        \* __main__: what pprint wrote (None: nothing)
    exitState,      \* __main__: "running", "ok", or the exception that ended the process
    boff,           \* SpecBackoff: the backoff of a row whose fetches all fail
    arg,            \* SpecResolve: the call under test
    ret             \* SpecResolve: its result

remote == <<indexPage, served, ordered>>
resultVars == <<mapSuccess, mapValue, numberLeft>>
poolVars == <<queue, active, outqueue, resultVars>>
rowVars == <<st, attempt, fetches, invocations, sleeps, rec>>
mainVars == <<pc, indexStatus, indexFetches, rows, outcome>>
resolveVars == <<arg, ret, boff>>
scriptVars == <<info, logged, printed, exitState>>
vars == <<remote, faults, mainVars, poolVars, rowVars, resolveVars, scriptVars>>

R == Len(rows)
RowIds == 1..R
Busy == Cardinality(active)
ChunkOf(r) == ((r - 1) \div ChunkSize(R)) + 1

\* MapResult._value is the list of results or, once a chunk has failed, the
\* first exception.
ValueList(l) == [list |-> l, exception |-> None]
ValueException(e) == [list |-> <<>>, exception |-> Some(e)]

\* MapResult.__init__: [None] * length
EmptyValue(n) == [k \in 1..n |-> None]

\* Variant: the result goes into the first free slots, in completion order.
SliceAssign_CompletionOrder(value, c, result) ==
    LET free == CHOOSE k \in 1..Len(value) :
                    value[k] = None /\ \A j \in 1..(k - 1) : value[j] # None
    IN  [k \in 1..Len(value) |->
            IF free <= k /\ k < free + Len(result) THEN result[k - free + 1] ELSE value[k]]

\* MapResult._set: value[i*chunksize:(i+1)*chunksize] = result
SliceAssign(value, c, result) ==
    [k \in 1..Len(value) |->
        IF (c - 1) * ChunkSize(R) < k /\ k <= (c - 1) * ChunkSize(R) + Len(result)
        THEN result[k - (c - 1) * ChunkSize(R)]
        ELSE value[k]]

\* A name that is not bound yet, and one bound to v.
Unbound == [bound |-> FALSE, value |-> <<>>]
Bound(v) == [bound |-> TRUE, value |-> v]

\* ----------------------------------------------------------------- initial
Idle ==
    /\ pc = "start"
    /\ indexStatus = 0
    /\ indexFetches = 0
    /\ rows = <<>>
    /\ queue = <<>>
    /\ active = {}
    /\ outqueue = <<>>
    /\ st = <<>>
    /\ attempt = <<>>
    /\ fetches = <<>>
    /\ invocations = <<>>
    /\ sleeps = <<>>
    /\ rec = <<>>
    /\ mapSuccess = TRUE
    /\ mapValue = ValueList(<<>>)
    /\ numberLeft = 0
    /\ outcome = Pending
    /\ info = Unbound
    /\ logged = FALSE
    /\ printed = None
    /\ exitState = "running"

NoCall == [url |-> "", response |-> NetworkError]

\* boff.i is the loop variable i; boff.slept the exponents x of the sleeps so
\* far, each sleep lasting 2 ** x milliseconds.
NoBackoff == [on |-> FALSE, i |-> 0, slept |-> <<>>]

\* Any index page of up to MaxRows rows; one row's fetches may all fail, every
\* other row's first fetch may fail.
Init ==
    /\ \E n \in 0..MaxRows :
          /\ indexPage \in IndexPages(n)
          /\ \E f \in 0..n : faults = [k \in 1..n |-> IF k = f THEN MAX_RETRIES ELSE 1]
    /\ served = SitePages
    /\ ordered = FALSE
    /\ Idle
    /\ arg = NoCall
    /\ ret = Pending
    /\ boff = NoBackoff

\* ------------------------------------------------------------------ actions
IndexResponses ==
    {Response(s, indexPage) : s \in SiteStatuses}
    \cup {[kind |-> "error", status_code |-> 0, content |-> <<>>]}

\* get_all_writetups, lines 41-49: fetch the index, parse it, submit the map.
FetchIndex ==
    /\ pc = "start"
    /\ \E response \in IndexResponses :
          /\ indexFetches' = indexFetches + 1
          /\ indexStatus' = response.status_code
          /\ IF response.kind = "error"
             THEN /\ pc' = "raised"
                  /\ outcome' = Raise(RequestException("get_all_writetups", "", ""))
                  /\ UNCHANGED <<rows, poolVars, rowVars>>
             ELSE IF ~assert_status_200(response.status_code)
             THEN /\ pc' = "raised"
                  /\ outcome' = Raise(CouldNotFetchInformation("assert_status_200", "", ""))
                  /\ UNCHANGED <<rows, poolVars, rowVars>>
             ELSE LET n == Len(response.content) IN
                  /\ pc' = "map"
                  /\ rows' = response.content
                  /\ queue' = TaskQueue(n)
                  /\ active' = {}
                  /\ outqueue' = <<>>
                  /\ mapSuccess' = TRUE
                  /\ mapValue' = ValueList(EmptyValue(n))
                  /\ numberLeft' = NumberOfChunks(n)
                  /\ st' = [k \in 1..n |-> "queued"]
                  /\ attempt' = [k \in 1..n |-> 0]
                  /\ fetches' = [k \in 1..n |-> 0]
                  /\ invocations' = [k \in 1..n |-> 0]
                  /\ sleeps' = [k \in 1..n |-> 0]
                  /\ rec' = [k \in 1..n |-> Pending]
                  /\ UNCHANGED outcome
    /\ UNCHANGED <<remote, faults, resolveVars, scriptVars>>

\* Variant: only a chunk that succeeded is counted.
NumberLeftAfter_SuccessOnly(n, success) == IF success THEN n - 1 ELSE n

\* MapResult._set: one chunk less to wait for.
NumberLeftAfter(n, success) == n - 1

\* Variant: a chunk that raised is counted as done and its exception dropped.
MapSet_Swallow(c, success, result) ==
    /\ numberLeft' = NumberLeftAfter(numberLeft, success)
    /\ IF success /\ mapSuccess
       THEN /\ mapValue' = ValueList(SliceAssign(mapValue.list, c, result))
            /\ UNCHANGED mapSuccess
       ELSE UNCHANGED <<mapSuccess, mapValue>>

\* MapResult._set(c, (success, result)): a chunk's list goes into its slice of
\* the value; the first exception replaces the value.
MapSet(c, success, result) ==
    /\ numberLeft' = NumberLeftAfter(numberLeft, success)
    /\ IF success /\ mapSuccess
       THEN /\ mapValue' = ValueList(SliceAssign(mapValue.list, c, result))
            /\ UNCHANGED mapSuccess
       ELSE IF ~success /\ mapSuccess
       THEN /\ mapSuccess' = FALSE
            /\ mapValue' = ValueException(result)
       ELSE UNCHANGED <<mapSuccess, mapValue>>

\* worker: put((job, i, result)) on the outqueue, where the result of chunk c
\* waits for the pool's result handler.
Put(c, success, result) == Append(outqueue, [i |-> c, success |-> success, value |-> result])

\* mapstar calls extract_info on row k of a chunk the worker holds; st0, rec0 and
\* act0 are the rows' states, results and the active chunks before the call.
\* Either the row raises before its first fetch, which ends the chunk, or it
\* reaches its first requests.get.
Begin(k, st0, rec0, act0) ==
    LET c == ChunkOf(k)
        e == Entry(rows[k])
    IN  /\ invocations' = [invocations EXCEPT ![k] = @ + 1]
        /\ IF e.kind = "raise"
           THEN /\ st' = [j \in RowIds |->
                            IF j = k THEN "raised"
                            ELSE IF ChunkOf(j) = c /\ j > k THEN "skipped"
                            ELSE st0[j]]
                /\ rec' = [rec0 EXCEPT ![k] = e]
                /\ active' = act0 \ {c}
                /\ outqueue' = Put(c, FALSE, e.value)
                /\ UNCHANGED <<attempt, fetches>>
           ELSE /\ st' = [st0 EXCEPT ![k] = "fetching"]
                /\ rec' = rec0
                /\ active' = act0 \cup {c}
                /\ attempt' = [attempt EXCEPT ![k] = 0]
                /\ fetches' = [fetches EXCEPT ![k] = @ + 1]
                /\ UNCHANGED outqueue

\* A worker takes the next chunk and calls extract_info on its first row.
Dispatch ==
    /\ pc = "map"
    /\ queue # <<>>
    /\ WorkerAvailable(Busy)
    /\ queue' = QueueAfterGet(queue)
    /\ Begin(ChunkItems(R, Head(queue))[1], st, rec, active)
    /\ UNCHANGED <<remote, faults, mainVars, sleeps, resultVars, resolveVars, scriptVars>>

\* extract_info(r) ends with out; mapstar goes on to the next row of the chunk,
\* or the chunk ends and the worker puts its result on the outqueue.
Finish(r, out) ==
    LET c == ChunkOf(r)
        items == ChunkItems(R, c)
        p == r - (c - 1) * ChunkSize(R)
        rec1 == [rec EXCEPT ![r] = out]
    IN  IF out.kind = "return" /\ p < Len(items)
        THEN Begin(items[p + 1], [st EXCEPT ![r] = "done"], rec1, active)
        ELSE /\ rec' = rec1
             /\ st' = [k \in RowIds |->
                         IF k = r THEN (IF out.kind = "return" THEN "done" ELSE "raised")
                         ELSE IF ChunkOf(k) = c /\ k > r THEN "skipped"
                         ELSE st[k]]
             /\ active' = active \ {c}
             /\ outqueue' =
                    IF out.kind = "return"
                    THEN Put(c, TRUE, [j \in 1..Len(items) |-> Some(rec1[items[j]].value)])
                    ELSE Put(c, FALSE, out.value)
             /\ UNCHANGED <<attempt, fetches, invocations>>

\* What the remote may answer to a fetch of row r's detail page.
DetailResponses(r) ==
    {Response(200, page) : page \in served}
    \cup (IF faults[r] > 0
          THEN {Response(s, page) : s \in SiteStatuses \ {200}, page \in served} \cup {NetworkError}
          ELSE {})

\* The remote answers row r's request now.
Answerable(r) == ordered => \A k \in 1..(r - 1) : st[k] # "fetching"

\* extract_info, lines 66-73: requests.get returns inside get_writeup_url.
FetchReturn(r) ==
    /\ pc = "map"
    /\ st[r] = "fetching"
    /\ Answerable(r)
    /\ \E response \in DetailResponses(r) :
          LET row == rows[r]
              out == get_writeup_url(DetailURL(row), response)
          IN  IF out.kind = "return"
              THEN /\ Finish(r, Return(RowInformation(Ctf(row), Challenge(row), out.value)))
                   /\ UNCHANGED <<faults, sleeps>>
              ELSE IF out.value.type = "CouldNotFetchInformation"
              THEN /\ st' = [st EXCEPT ![r] = "sleeping"]
                   /\ sleeps' = [sleeps EXCEPT ![r] = @ + 1]
                   /\ faults' = [faults EXCEPT ![r] = @ - 1]
                   /\ UNCHANGED <<attempt, fetches, invocations, rec, poolVars>>
              ELSE /\ Finish(r, out)
                   /\ faults' = [faults EXCEPT ![r] = @ - 1]
                   /\ UNCHANGED sleeps
    /\ UNCHANGED <<remote, mainVars, queue, resultVars, resolveVars, scriptVars>>

\* extract_info, lines 65 and 73-76: time.sleep returns; next iteration or raise.
WakeUp(r) ==
    /\ pc = "map"
    /\ st[r] = "sleeping"
    /\ IF LoopContinues(attempt[r])
       THEN /\ attempt' = [attempt EXCEPT ![r] = @ + 1]
            /\ st' = [st EXCEPT ![r] = "fetching"]
            /\ fetches' = [fetches EXCEPT ![r] = @ + 1]
            /\ UNCHANGED <<invocations, rec, poolVars>>
       ELSE Finish(r, Raise(CouldNotFetchInformation("extract_info", Ctf(rows[r]), Challenge(rows[r]))))
    /\ UNCHANGED <<remote, faults, mainVars, queue, sleeps, resultVars, resolveVars, scriptVars>>

\* Pool._handle_results: the result handler takes the oldest chunk result from
\* the outqueue and stores it with MapResult._set.
HandleResult ==
    /\ pc = "map"
    /\ outqueue # <<>>
    /\ outqueue' = Tail(outqueue)
    /\ MapSet(Head(outqueue).i, Head(outqueue).success, Head(outqueue).value)
    /\ UNCHANGED <<remote, faults, mainVars, queue, active, rowVars, resolveVars, scriptVars>>

\* get_all_writetups, lines 49-52: pool.map returns the list or re-raises.
MapFinish ==
    /\ pc = "map"
    /\ numberLeft = 0
    /\ pc' = IF mapSuccess THEN "returned" ELSE "raised"
    /\ outcome' = IF mapSuccess THEN Return(mapValue.list) ELSE Raise(mapValue.exception[1])
    /\ UNCHANGED <<remote, faults, indexStatus, indexFetches, rows, poolVars, rowVars, resolveVars, scriptVars>>

\* except CouldNotFetchInformation, line 133: is this exception caught?
Caught(exception) == exception.type = "CouldNotFetchInformation"

\* __main__, lines 131-137: bind info or log the caught exception, then
\* pprint(info); any other exception ends the process at line 132.
Main ==
    /\ pc \in {"returned", "raised"}
    /\ exitState = "running"
    /\ LET info1 == IF outcome.kind = "return" THEN Bound(outcome.value) ELSE info
       IN  /\ info' = info1
           /\ logged' = (outcome.kind = "raise" /\ Caught(outcome.value))
           /\ IF outcome.kind = "raise" /\ ~Caught(outcome.value)
              THEN /\ exitState' = outcome.value.type
                   /\ UNCHANGED printed
              ELSE IF info1.bound
              THEN /\ printed' = Some(info1.value)
                   /\ exitState' = "ok"
              ELSE /\ exitState' = "NameError"
                   /\ UNCHANGED printed
    /\ UNCHANGED <<remote, faults, mainVars, poolVars, rowVars, resolveVars>>

Next ==
    \/ Main
    \/ FetchIndex
    \/ Dispatch
    \/ \E r \in RowIds : FetchReturn(r)
    \/ \E r \in RowIds : WakeUp(r)
    \/ HandleResult
    \/ MapFinish

Spec == Init /\ [][Next]_vars

\* The same program when every fetch and every sleep returns and the workers
\* and the main thread keep being scheduled: a step that can be taken is taken.
SpecFair == Init /\ [][Next]_vars /\ WF_vars(Next)

\* More rows than workers, on a remote that answers one request at a time,
\* lowest row first; one row's page may fail, the others always answer.
InitPool ==
    /\ \E n \in (PARALLEL_REQ + 1)..(PARALLEL_REQ + MaxExtra) :
          /\ indexPage = IndexPage(n)
          /\ \E f \in 0..n : faults = [k \in 1..n |-> IF k = f THEN MAX_RETRIES ELSE 0]
    /\ served = {BothLinksPage}
    /\ ordered = TRUE
    /\ Idle
    /\ arg = NoCall
    /\ ret = Pending
    /\ boff = NoBackoff

SpecPool == InitPool /\ [][Next]_vars

\* The smallest index page that pool.map cuts into chunks of two rows, on a
\* remote that answers one request at a time, lowest row first; the page of the
\* first row may fail.
ChunkRows == PARALLEL_REQ * CHUNK_FACTOR + 1

InitChunk ==
    /\ indexPage = IndexPage(ChunkRows)
    /\ \E f \in 0..1 : faults = [k \in 1..ChunkRows |-> IF k = f THEN MAX_RETRIES ELSE 0]
    /\ served = {BothLinksPage}
    /\ ordered = TRUE
    /\ Idle
    /\ arg = NoCall
    /\ ret = Pending
    /\ boff = NoBackoff

SpecChunk == InitChunk /\ [][Next]_vars

\* get_writeup_url on its own: any url, any response.
Calls ==
    {[url |-> u, response |-> rsp] :
        u \in {DetailURL(Row(1)), DetailURL(Row(2))},
        rsp \in {Response(s, page) : s \in Statuses, page \in AllPages} \cup {NetworkError}}

InitResolve ==
    /\ indexPage = <<>>
    /\ faults = <<>>
    /\ served = {}
    /\ ordered = FALSE
    /\ Idle
    /\ arg \in Calls
    /\ ret = Pending
    /\ boff = NoBackoff

Resolve ==
    /\ arg # NoCall
    /\ ret = Pending
    /\ ret' = get_writeup_url(arg.url, arg.response)
    /\ UNCHANGED <<remote, faults, mainVars, poolVars, rowVars, arg, boff, scriptVars>>

NextResolve == Resolve

SpecResolve == InitResolve /\ [][NextResolve]_vars

\* The retry loop of extract_info on its own, every fetch failing: lines 65-73
\* with any jitter draw at each failure. Only the last two sleeps are kept.
InitBackoff ==
    /\ indexPage = <<>>
    /\ faults = <<>>
    /\ served = {}
    /\ ordered = FALSE
    /\ Idle
    /\ arg = NoCall
    /\ ret = Pending
    /\ boff = [on |-> TRUE, i |-> 0, slept |-> <<>>]

LastTwo(sq) == IF Len(sq) <= 2 THEN sq ELSE SubSeq(sq, Len(sq) - 1, Len(sq))

FailAndSleep ==
    /\ boff.on
    /\ boff.i < MAX_RETRIES
    /\ \E m \in Draws :
          boff' = [on |-> TRUE,
                   i |-> boff.i + 1,
                   slept |-> LastTwo(Append(boff.slept, BackoffExponent(boff.i, m)))]
    /\ UNCHANGED <<remote, faults, mainVars, poolVars, rowVars, arg, ret, scriptVars>>

NextBackoff == FailAndSleep

SpecBackoff == InitBackoff /\ [][NextBackoff]_vars

\* ------------------------------------------------------------- observations
RECURSIVE SumUpTo(_, _)
SumUpTo(f, n) == IF n = 0 THEN 0 ELSE f[n] + SumUpTo(f, n - 1)

\* All requests.get calls for detail pages so far.
TotalFetches == SumUpTo(fetches, Len(fetches))

Fetching == {r \in RowIds : st[r] = "fetching"}

\* get_all_writetups is over.
Over == pc \in {"returned", "raised"}

\* extract_info(r) ended with the exception of line 75.
Exhausted(r) ==
    /\ rec[r].kind = "raise"
    /\ rec[r].value.type = "CouldNotFetchInformation"
    /\ rec[r].value.origin = "extract_info"

\* Row r of the parsed index has the markup extract_info expects.
WellFormed(r) == Entry(rows[r]).kind # "raise"

\* The positions of the returned list that hold a record with the labels of row r.
RecordsOf(r) ==
    IF outcome.kind = "return"
    THEN {k \in 1..Len(outcome.value) :
            /\ outcome.value[k] # None
            /\ outcome.value[k][1].ctf = Ctf(rows[r])
            /\ outcome.value[k][1].challenge = Challenge(rows[r])}
    ELSE {}

\* The exception get_all_writetups raised names row r.
FailureSignalled(r) ==
    /\ outcome.kind = "raise"
    /\ outcome.value.ctf = Ctf(rows[r])
    /\ outcome.value.challenge = Challenge(rows[r])

\* ------------------------------------------------------------------- claims

\* C1: once the crawl is over (the index having been fetched), every row has
\* exactly one record in the returned list or is the row reported as failed.
C1_EveryRowAccounted ==
    (Over /\ indexStatus = 200) =>
        \A r \in {k \in RowIds : WellFormed(k)} :
            \/ Cardinality(RecordsOf(r)) = 1 /\ ~FailureSignalled(r)
            \/ RecordsOf(r) = {} /\ FailureSignalled(r)

\* C2: when a row has exhausted its retries, the crawl still ends with every
\* other row resolved and with the records of the rows that succeeded.
C2_FailureSparesSiblings ==
    (Over /\ \E r \in RowIds : Exhausted(r)) =>
        \A k \in RowIds :
            /\ st[k] \in {"done", "raised"}
            /\ st[k] = "done" =>
                  /\ outcome.kind = "return"
                  /\ outcome.value[k] = Some(rec[k].value)

\* C3: a row never fetches more than MAX_RETRIES times, a row that gives up has
\* fetched exactly MAX_RETRIES times, and after the failed fetch number
\* MAX_RETRIES the row fetches no more and gives up.
C3_GivesUpAtCap ==
    /\ [](\A r \in RowIds :
            /\ fetches[r] <= MAX_RETRIES
            /\ Exhausted(r) => fetches[r] = MAX_RETRIES /\ st[r] = "raised")
    /\ [][\A r \in RowIds :
            (st[r] = "sleeping" /\ fetches[r] = MAX_RETRIES /\ st'[r] # "sleeping")
                => (fetches'[r] = MAX_RETRIES /\ rec'[r].kind = "raise"
                    /\ rec'[r].value.type = "CouldNotFetchInformation"
                    /\ rec'[r].value.origin = "extract_info")]_vars

C3_Witness ==
    \E r \in RowIds : Exhausted(r) /\ fetches[r] = MAX_RETRIES /\ faults[r] = 0

\* C4: for a page fetched with status 200, get_writeup_url returns the href of
\* the first description anchor when there is one, else the href of the first
\* 'Original writeup' anchor when there is one, else the url it was given.
C4_LinkPriority ==
    (ret # Pending /\ arg.response.kind = "response" /\ arg.response.status_code = 200) =>
        LET page == arg.response.content IN
        /\ ret.kind = "return"
        /\ page.description # <<>> => ret.value = Head(page.description).href
        /\ (page.description = <<>> /\ page.original # <<>>) =>
              ret.value = Head(page.original).href
        /\ (page.description = <<>> /\ page.original = <<>>) => ret.value = Some(arg.url)

C4_Witness ==
    /\ ret = Return(Some(INLINE_C))
    /\ Len(arg.response.content.description) = 2
    /\ arg.response.content.description[2].href = Some(INLINE_A)
    /\ arg.response.content.original # <<>>
    /\ Head(arg.response.content.original).href = Some(FALLBACK_B)

\* C5: never more than PARALLEL_REQ rows are inside requests.get at once.
C5_AtMostPoolWidthFetching == Cardinality(Fetching) <= PARALLEL_REQ

C5_Witness ==
    /\ Cardinality(Fetching) = PARALLEL_REQ
    /\ \E r \in RowIds : st[r] = "queued"
    /\ \E r \in Fetching : attempt[r] > 0

\* C6: while fewer than PARALLEL_REQ workers are busy, a row that has not
\* started is still in the task queue and the pool can hand out work, whatever
\* the other rows are doing.
C6_IdleWorkerTakesWaitingRow ==
    \A r \in RowIds :
        (pc = "map" /\ st[r] = "queued" /\ Busy < PARALLEL_REQ) =>
            /\ \E k \in 1..Len(queue) : queue[k] = ChunkOf(r)
            /\ ENABLED Dispatch

\* C7: an index response with a status other than 200 ends the crawl with
\* CouldNotFetchInformation after one index fetch, with no detail fetch and no
\* rows or results.
C7_IndexFailureAborts ==
    (pc # "start" /\ indexStatus \notin {0, 200}) =>
        /\ pc = "raised"
        /\ outcome = Raise(CouldNotFetchInformation("assert_status_200", "", ""))
        /\ indexFetches = 1
        /\ TotalFetches = 0
        /\ rows = <<>>
        /\ mapValue = ValueList(<<>>)

C7_Witness ==
    /\ pc = "raised"
    /\ indexStatus = 204
    /\ indexFetches = 1
    /\ Len(indexPage) > 0

\* C8: a network error on a detail fetch is retried like a bad status: a row
\* only ever fails by giving up after MAX_RETRIES fetches, and the crawl never
\* raises the network error.
C8_NetworkErrorRetried ==
    /\ \A r \in RowIds : (WellFormed(r) /\ rec[r].kind = "raise") => Exhausted(r)
    /\ (outcome.kind = "raise" /\ indexStatus = 200) =>
          outcome.value.type # "RequestException"

\* C9: every record of the returned list has a non-empty string as link.
C9_LinkNonEmpty ==
    outcome.kind = "return" =>
        \A k \in 1..Len(outcome.value) :
            outcome.value[k] # None =>
                /\ outcome.value[k][1].link # None
                /\ outcome.value[k][1].link # Some("")

\* C10: the index is fetched once, no row is handed to extract_info twice, and
\* no row's page is fetched without it or more than MAX_RETRIES times.
C10_FetchBudget ==
    /\ indexFetches = (IF pc = "start" THEN 0 ELSE 1)
    /\ \A r \in RowIds :
          /\ invocations[r] <= 1
          /\ fetches[r] <= MAX_RETRIES
          /\ fetches[r] > 0 => invocations[r] = 1
          /\ st[r] \in {"queued", "skipped"} <=> invocations[r] = 0
    /\ Cardinality({r \in RowIds : invocations[r] > 0}) <= Len(indexPage)

C10_Witness ==
    /\ pc = "returned"
    /\ R >= 2
    /\ \A r \in RowIds : invocations[r] = 1
    /\ \E r \in RowIds : fetches[r] > 1

\* C11: a response whose status is not 200 makes get_writeup_url raise
\* CouldNotFetchInformation, whatever links its body holds: nothing is returned.
C11_Non200Raises ==
    (ret # Pending /\ arg.response.kind = "response" /\ arg.response.status_code # 200) =>
        /\ ret.kind = "raise"
        /\ ret.value.type = "CouldNotFetchInformation"

C11_Witness ==
    /\ ret.kind = "raise"
    /\ arg.response.kind = "response"
    /\ arg.response.status_code \in {204, 301}
    /\ arg.response.content.description # <<>>
    /\ Head(arg.response.content.description).href = Some(INLINE_A)
    /\ arg.response.content.original # <<>>

\* C12: a row without the expected markup is never fetched, never slept for,
\* never retried and never yields a record: extract_info raises at once, and a
\* crawl over such a page ends with an exception, not with a list.
C12_MalformedRowIsFatal ==
    \A r \in RowIds :
        ~WellFormed(r) =>
            /\ fetches[r] = 0
            /\ sleeps[r] = 0
            /\ invocations[r] <= 1
            /\ rec[r].kind # "return"
            /\ invocations[r] = 1 =>
                  /\ st[r] = "raised"
                  /\ rec[r].kind = "raise"
                  /\ rec[r].value.type \in {"IndexError", "TypeError"}
            /\ Over => outcome.kind = "raise"

C12_Witness ==
    /\ Over
    /\ outcome.kind = "raise"
    /\ outcome.value.type = "IndexError"
    /\ \E r \in RowIds : ~WellFormed(r) /\ st[r] = "raised"
    /\ \E r \in RowIds : st[r] = "done"

\* The exponent of the latest sleep and the attempt index it followed.
LastSleep == boff.slept[Len(boff.slept)]
LastIndex == boff.i - 1

\* C13 as stated: the delay after the failed attempt i lies in [2^i, 2^(i+1))
\* milliseconds, and is not shorter than the delay before it.
C13_DelayBelowNextPower ==
    (boff.on /\ boff.slept # <<>>) =>
        /\ FloatLeq(Float(LastIndex, 0), LastSleep)
        /\ FloatLeq(LastSleep, Float(LastIndex + 1, 0))
        /\ LastSleep # Float(LastIndex + 1, 0)
        /\ Len(boff.slept) = 2 => FloatLeq(boff.slept[1], boff.slept[2])

\* C13 amended: the delay after the failed attempt i lies in [2^i, 2^(i+1)]
\* milliseconds, and is not shorter than the delay before it.
C13_DelayWithinPowers ==
    (boff.on /\ boff.slept # <<>>) =>
        /\ FloatLeq(Float(LastIndex, 0), LastSleep)
        /\ FloatLeq(LastSleep, Float(LastIndex + 1, 0))
        /\ Len(boff.slept) = 2 => FloatLeq(boff.slept[1], boff.slept[2])

\* Two successive sleeps of the same length: the first drew a jitter that
\* rounds up, the second drew 0.
C13_Witness ==
    /\ boff.on
    /\ boff.i = MAX_RETRIES
    /\ Len(boff.slept) = 2
    /\ boff.slept[1] = boff.slept[2]
    /\ boff.slept[2] = Float(MAX_RETRIES - 1, 0)

\* C14: a crawl that raised (a bad index status, a row out of retries or a row
\* without the expected markup) ends the program with the diagnostic logged, no
\* list printed and no further error.
C14_FailedCrawlLogsAndEnds ==
    (exitState # "running" /\ outcome.kind = "raise"
        /\ outcome.value.type # "RequestException") =>
        /\ logged
        /\ printed = None
        /\ exitState = "ok"

\* C15: a returned list has one record per row, the k-th record carrying the
\* labels of the k-th row of the index; while the map runs, every slot of the
\* list that is filled already holds the record of the row of that position.
C15_SubmissionOrder ==
    /\ outcome.kind = "return" =>
          /\ Len(outcome.value) = Len(indexPage)
          /\ \A k \in 1..Len(outcome.value) :
                /\ outcome.value[k] # None
                /\ outcome.value[k][1].ctf = Ctf(indexPage[k])
                /\ outcome.value[k][1].challenge = Challenge(indexPage[k])
    /\ (pc = "map" /\ mapSuccess) =>
          \A k \in RowIds :
              mapValue.list[k] # None =>
                  /\ mapValue.list[k][1].ctf = Ctf(indexPage[k])
                  /\ mapValue.list[k][1].challenge = Challenge(indexPage[k])

\* A returned list whose first row succeeded only on its last attempt, after
\* the other rows.
C15_Witness ==
    /\ outcome.kind = "return"
    /\ Len(outcome.value) >= 2
    /\ fetches[1] = MAX_RETRIES
    /\ \A k \in 2..R : fetches[k] = 1

\* C16: with every fetch and sleep returning and fair scheduling, crawl()
\* eventually returns a list or raises.
C16_CrawlTerminates == <>(pc \in {"returned", "raised"})

\* crawl() has ended although one row used up all its attempts while another
\* row was resolved.
C16_Witness ==
    /\ pc = "raised"
    /\ \E r \in RowIds : Exhausted(r)
    /\ \E k \in RowIds : st[k] = "done"

\* C17: the fetch that gets status 200 ends the row: the row's record is
\* computed from that response and carries the row's labels, and from then on
\* the row fetches no more, sleeps no more and keeps its record, which is the
\* one the returned list holds.
C17_SuccessEndsRetryLoop ==
    [][\A r \in RowIds :
          /\ (st[r] = "fetching" /\ st'[r] = "done") =>
                /\ fetches'[r] = fetches[r]
                /\ sleeps'[r] = sleeps[r]
                /\ rec'[r].kind = "return"
                /\ rec'[r].value.ctf = Ctf(rows[r])
                /\ rec'[r].value.challenge = Challenge(rows[r])
                /\ \E page \in served :
                      rec'[r].value.link =
                          get_writeup_url(DetailURL(rows[r]), Response(200, page)).value
          /\ st[r] = "done" =>
                /\ st'[r] = "done"
                /\ fetches'[r] = fetches[r]
                /\ sleeps'[r] = sleeps[r]
                /\ rec'[r] = rec[r]
                /\ outcome'.kind = "return" => outcome'.value[r] = Some(rec[r].value)]_vars

\* A returned list with a row that succeeded after failed attempts.
C17_Witness ==
    /\ pc = "returned"
    /\ \E r \in RowIds : st[r] = "done" /\ fetches[r] >= 2 /\ sleeps[r] = fetches[r] - 1

\* C18: a row has slept once for each of its attempts that ended with
\* CouldNotFetchInformation: the sleep is the row's next step after such an
\* attempt, the row's step after the sleep is the next fetch or, after the
\* sleep number MAX_RETRIES, the raise of line 75.
C18_SleepAfterEveryFailure ==
    /\ [](\A r \in RowIds :
            /\ st[r] \in {"fetching", "done"} => sleeps[r] = fetches[r] - 1
            /\ st[r] = "sleeping" => sleeps[r] = fetches[r]
            /\ Exhausted(r) => sleeps[r] = MAX_RETRIES /\ fetches[r] = MAX_RETRIES)
    /\ [][\A r \in RowIds :
            /\ (st[r] = "fetching" /\ faults'[r] # faults[r] /\ rec'[r].kind # "raise") =>
                  st'[r] = "sleeping" /\ sleeps'[r] = sleeps[r] + 1 /\ fetches'[r] = fetches[r]
            /\ sleeps'[r] # sleeps[r] => st[r] = "fetching" /\ st'[r] = "sleeping"
            /\ (st[r] = "sleeping" /\ st'[r] # "sleeping") =>
                  /\ sleeps'[r] = sleeps[r]
                  /\ \/ st'[r] = "fetching" /\ fetches'[r] = fetches[r] + 1
                     \/ sleeps[r] = MAX_RETRIES /\ Exhausted(r)'
            /\ (~Exhausted(r) /\ Exhausted(r)') => st[r] = "sleeping"]_vars

\* A crawl that ended after a row slept MAX_RETRIES times and then gave up.
C18_Witness ==
    /\ pc = "raised"
    /\ \E r \in RowIds : Exhausted(r) /\ sleeps[r] = MAX_RETRIES /\ st[r] = "raised"

====
